---- MODULE Spec2Model ----
(***************************************************************************)
(* Model of src/main.py: the Streamlit earnings-call tool.  One behaviour  *)
(* is one run of the script: API key check, upload form, extract_text     *)
(* (native text layer, then OCR fallback), analyze_transcript (remote     *)
(* completion call, regex + json.loads) and the report renderer.          *)
(*                                                                         *)
(* Strings are sequences of one-character strings.  A Python value that    *)
(* may be None is a sequence of length 0 (None) or 1 (the value).          *)
(***************************************************************************)
EXTENDS Integers, Sequences, FiniteSets, TLC

\* ---------------------------------------------------------------- bounds
MaxPages == 2
MaxReplyLen == 5

\* --------------------------------------------------------------- strings
Whitespace == {" ", "\n"}

None == <<>>
Some(x) == <<x>>
IsNone(o) == o = <<>>

RECURSIVE LStrip(_)
LStrip(s) == IF s # <<>> /\ Head(s) \in Whitespace THEN LStrip(Tail(s)) ELSE s

RECURSIVE RStrip(_)
RStrip(s) ==
    IF s # <<>> /\ s[Len(s)] \in Whitespace
    THEN RStrip(SubSeq(s, 1, Len(s) - 1))
    ELSE s

\* str.strip()
Strip(s) == RStrip(LStrip(s))

\* What a page of the PDF can hold, for page.extract_text() and for
\* pytesseract.image_to_string(): nothing, text, whitespace only, both.
PageTexts == { <<>>, <<"a">>, <<" ">>, <<" ", "a">> }

\* ---------------------------------------------------- extract_text pieces
\* lines 52-53: if extracted: text += extracted + "\n"
AppendPage(text, extracted) ==
    IF extracted # <<>> THEN text \o extracted \o <<"\n">> ELSE text

\* line 58: if not text.strip()
NeedsOcrAlways(text) == TRUE

NeedsOcr(text) == Strip(text) = <<>>

\* line 63: text += pytesseract.image_to_string(img)
AppendOcr(text, recognized) == text \o recognized

\* lines 64-66: except Exception -> return None
OcrFailureKeepsText(text) == Some(text)

OcrFailureResult(text) == None

\* line 152: if not text  (None and "" are falsy)
FalsyNoneOnly(o) == IsNone(o)

Falsy(o) == IsNone(o) \/ o[1] = <<>>

\* ------------------------------------------------------------ JSON values
\* A JSON value: a string (items: its characters, or a whole message kept
\* as one unit), a list of strings (items: the elements) or a number.
NoVal == [type |-> "none", items |-> <<>>]
Str(chars) == [type |-> "str", items |-> chars]
List(items) == [type |-> "list", items |-> items]
Num == [type |-> "num", items |-> <<>>]

\* The model's reply is a sequence of tokens: braces, comma, newline, free
\* text that is not JSON, and whole members  "key": value.
Tok(sym) == [sym |-> sym, key |-> "", val |-> NoVal]
LB == Tok("{")
RB == Tok("}")
CM == Tok(",")
NL == Tok("\n")
TX == Tok("text")
Mem(k, v) == [sym |-> "member", key |-> k, val |-> v]

SetMin(S) == CHOOSE x \in S : \A y \in S : x <= y
SetMax(S) == CHOOSE x \in S : \A y \in S : x >= y

\* line 107: "." under re.DOTALL matches every character, newline included
DotMatches(c) == TRUE

\* line 107: s[i..j] is a match of \{.*\}
MatchesAt(s, i, j) ==
    /\ i < j
    /\ s[i] = LB
    /\ s[j] = RB
    /\ \A k \in (i + 1)..(j - 1) : DotMatches(s[k])

\* a non-greedy .*? : the shortest match at the leftmost start
RegexSearchLazy(s) ==
    LET starts == {i \in 1..Len(s) : \E j \in 1..Len(s) : MatchesAt(s, i, j)}
    IN  IF starts = {} THEN None
        ELSE LET i == SetMin(starts)
                 j == SetMin({e \in 1..Len(s) : MatchesAt(s, i, e)})
             IN  Some(SubSeq(s, i, j))

\* line 107: re.search(r"\{.*\}", raw_output, re.DOTALL): the leftmost start
\* that has a match, and from it the longest match (greedy .*)
RegexSearch(s) ==
    LET starts == {i \in 1..Len(s) : \E j \in 1..Len(s) : MatchesAt(s, i, j)}
    IN  IF starts = {} THEN None
        ELSE LET i == SetMin(starts)
                 j == SetMax({e \in 1..Len(s) : MatchesAt(s, i, e)})
             IN  Some(SubSeq(s, i, j))

\* JSON whitespace between tokens is skipped by the parser
SkipWs(toks) == SelectSeq(toks, LAMBDA t : t # NL)

\* the tokens form  { member , member , ... }
IsJsonObject(toks) ==
    LET b == SkipWs(toks)
        n == Len(b)
    IN  /\ n >= 2
        /\ b[1] = LB
        /\ b[n] = RB
        /\ \/ n = 2
           \/ /\ n % 2 = 1
              /\ \A i \in 2..(n - 1) :
                    IF i % 2 = 0 THEN b[i].sym = "member" ELSE b[i] = CM

\* the dict json.loads builds: a key given twice keeps its last value
ObjectOf(toks) ==
    LET b == SkipWs(toks)
        at(k) == SetMax({i \in 1..Len(b) : b[i].sym = "member" /\ b[i].key = k})
        keys == {b[i].key : i \in {x \in 1..Len(b) : b[x].sym = "member"}}
    IN  [k \in keys |-> b[at(k)].val]

\* line 112: json.loads(match.group()); None stands for the exception
JsonLoads(toks) == IF IsJsonObject(toks) THEN Some(ObjectOf(toks)) ELSE None

ErrNoJson == [error |-> Str(<<"Model did not return structured JSON">>)]
ErrMalformed == [error |-> Str(<<"Failed to parse model JSON output">>)]

\* lines 107-115: which return statement is taken
ParseOutcome(raw) ==
    LET match == RegexSearch(raw)
    IN  IF IsNone(match) THEN "NoJsonFound"
        ELSE IF IsNone(JsonLoads(match[1])) THEN "MalformedJson"
        ELSE "Parsed"

\* lines 107-115: the value returned
ParseReply(raw) ==
    LET match == RegexSearch(raw)
    IN  IF IsNone(match) THEN ErrNoJson
        ELSE IF IsNone(JsonLoads(match[1])) THEN ErrMalformed
        ELSE JsonLoads(match[1])[1]

\* ---------------------------------------------------------- remote replies
RECURSIVE CommaSep(_)
CommaSep(ms) ==
    IF Len(ms) <= 1 THEN ms
    ELSE <<Head(ms), CM>> \o CommaSep(Tail(ms))

JsonText(ms) == <<LB>> \o CommaSep(ms) \o <<RB>>

\* the seven fields the prompt asks for (lines 84-92), with sample values
FullMembers ==
    << Mem("management_tone", Str(<<"u", "p">>)),
       Mem("confidence_level", Str(<<"h", "i">>)),
       Mem("key_positives", List(<<"revenue", "margin">>)),
       Mem("key_concerns", List(<<>>)),
       Mem("forward_guidance", Str(<<"o", "k">>)),
       Mem("capacity_utilization", Str(<<"Not mentioned in transcript">>)),
       Mem("growth_initiatives", List(<<"export">>)) >>

\* the same record with key_concerns a number instead of a list
WrongShapeMembers ==
    [FullMembers EXCEPT ![4] = Mem("key_concerns", Num)]

\* what the completion service may answer (line 104: message.content)
ModelReplies ==
    { <<TX>> \o JsonText(FullMembers) \o <<TX>>,
      <<TX>>,
      <<LB, TX, RB>>,
      JsonText(<<FullMembers[1]>>),
      JsonText(<<>>),
      JsonText(FullMembers \o <<Mem("error", Str(<<"n", "o">>))>>),
      JsonText(WrongShapeMembers),
      JsonText(FullMembers) \o <<NL>> \o JsonText(FullMembers) }

\* line 95: text[:8000]
PromptCap == 8000
Truncate(t) == SubSeq(t, 1, IF Len(t) < PromptCap THEN Len(t) ELSE PromptCap)

\* ---------------------------------------------------------------- renderer
Entry(kind, label, val) == [kind |-> kind, label |-> label, val |-> val]

\* lines 166-186, in the order the script runs them
Sections ==
    << [field |-> "management_tone", kind |-> "metric", label |-> "Management Tone"],
       [field |-> "confidence_level", kind |-> "metric", label |-> "Confidence Level"],
       [field |-> "key_positives", kind |-> "bullets", label |-> "### Key Positives"],
       [field |-> "key_concerns", kind |-> "bullets", label |-> "### Key Concerns"],
       [field |-> "forward_guidance", kind |-> "text", label |-> "### Forward Guidance"],
       [field |-> "capacity_utilization", kind |-> "text", label |-> "### Capacity Utilization"],
       [field |-> "growth_initiatives", kind |-> "bullets", label |-> "### Growth Initiatives"] >>

\* a Python for loop runs over a list or over the characters of a str
Iterable(v) == v.type \in {"list", "str"}

\* lines 171-172: one st.write(f"- {item}") per item
Bullets(v) == [i \in 1..Len(v.items) |-> Entry("write", "- ", Str(<<v.items[i]>>))]

\* what one section shows when its field is present and usable
SectionEntries(s, v) ==
    IF s.kind = "metric" THEN <<Entry("metric", s.label, v)>>
    ELSE IF s.kind = "bullets" THEN <<Entry("markdown", s.label, NoVal)>> \o Bullets(v)
    ELSE <<Entry("markdown", s.label, NoVal), Entry("write", "", v)>>

\* what one section shows before it raises: the heading of a list or text
\* section is written before result[field] is evaluated
SectionPartial(s) ==
    IF s.kind = "metric" THEN <<>> ELSE <<Entry("markdown", s.label, NoVal)>>

\* result[field] raises KeyError; iterating a non-iterable raises TypeError
SectionFault(s, res) ==
    IF s.field \notin DOMAIN res THEN "KeyError"
    ELSE IF s.kind = "bullets" /\ ~Iterable(res[s.field]) THEN "TypeError"
    ELSE ""

MsgConfig == "OpenRouter API key not found. Set OPENROUTER_API_KEY in environment."
MsgOcrInfo == "Using OCR fallback..."
MsgOcrFailed == "OCR failed"
MsgNoText == "Unable to extract text from PDF."
MsgComplete == "Analysis Complete"

NoFault == [stage |-> "", kind |-> ""]
Fault(stage, kind) == [stage |-> stage, kind |-> kind]

\* ------------------------------------------------------------------ state
VARIABLES
    pc,            \* where the script is
    secrets,       \* st.secrets: a mapping from names to strings
    apiKey,        \* OPENROUTER_API_KEY (line 28)
    client,        \* TRUE once OpenAI(...) is constructed (line 34)
    display,       \* what the page shows, in order
    nativePages,   \* what page.extract_text() returned, page by page
    nativeRaised,  \* the native stage raised (line 54)
    text,          \* the local text of extract_text
    ocrInvoked,    \* convert_from_bytes was reached (line 61)
    ocrPages,      \* what image_to_string returned, image by image
    ocrRaised,     \* the OCR stage raised (line 64)
    returned,      \* extract_text has returned
    retval,        \* its value: None or Some(text)
    remoteCalled,  \* client.chat.completions.create was called (line 98)
    prompt,        \* the transcript part of the prompt (line 95)
    rawOutput,     \* message.content: None or Some(reply)
    outcome,       \* which return of analyze_transcript was taken
    result,        \* the value analyze_transcript returned
    sec,           \* the next section to render
    fault          \* the unhandled exception that ended the run, if any

vars == << pc, secrets, apiKey, client, display, nativePages, nativeRaised, text,
           ocrInvoked, ocrPages, ocrRaised, returned, retval, remoteCalled,
           prompt, rawOutput, outcome, result, sec, fault >>

startupVars == << secrets, apiKey, client >>
extractVars == << nativePages, nativeRaised, text, ocrInvoked, ocrPages,
                  ocrRaised, returned, retval >>
analyzeVars == << remoteCalled, prompt, rawOutput, outcome, result >>

KeyName == "OPENROUTER_API_KEY"

\* the secret store of the host: the key undefined, defined empty, defined
SecretStores ==
    { [k \in {} |-> ""], [k \in {KeyName} |-> ""], [k \in {KeyName} |-> "sk"] }

Init ==
    /\ pc = "start"
    /\ secrets \in SecretStores
    /\ apiKey = ""
    /\ client = FALSE
    /\ display = <<>>
    /\ nativePages = <<>>
    /\ nativeRaised = FALSE
    /\ text = <<>>
    /\ ocrInvoked = FALSE
    /\ ocrPages = <<>>
    /\ ocrRaised = FALSE
    /\ returned = FALSE
    /\ retval = None
    /\ remoteCalled = FALSE
    /\ prompt = <<>>
    /\ rawOutput = None
    /\ outcome = ""
    /\ result = <<>>
    /\ sec = 1
    /\ fault = NoFault

Show(e) == display' = Append(display, e)

\* ---------------------------------------------------------------- startup
\* line 28: st.secrets["OPENROUTER_API_KEY"]; a missing key raises KeyError
ReadSecret ==
    /\ pc = "start"
    /\ IF KeyName \in DOMAIN secrets
       THEN /\ apiKey' = secrets[KeyName]
            /\ pc' = "check_key"
            /\ fault' = fault
       ELSE /\ apiKey' = apiKey
            /\ pc' = "crashed"
            /\ fault' = Fault("startup", "KeyError")
    /\ UNCHANGED << secrets, client, display, extractVars, analyzeVars, sec >>

\* lines 30-32: if not OPENROUTER_API_KEY: st.error(...); st.stop()
CheckKey ==
    /\ pc = "check_key"
    /\ IF apiKey = ""
       THEN /\ Show(Entry("error", MsgConfig, NoVal))
            /\ pc' = "stopped"
       ELSE /\ display' = display
            /\ pc' = "make_client"
    /\ UNCHANGED << startupVars, extractVars, analyzeVars, sec, fault >>

\* lines 34-37: client = OpenAI(...)
MakeClient ==
    /\ pc = "make_client"
    /\ client' = TRUE
    /\ pc' = "form"
    /\ UNCHANGED << secrets, apiKey, display, extractVars, analyzeVars, sec, fault >>

\* lines 145-150: the upload form; the pipeline runs when a file is there
\* and the button is pressed, and extract_text starts with text = ""
Form ==
    /\ pc = "form"
    /\ \E uploaded \in BOOLEAN, pressed \in BOOLEAN :
          pc' = IF uploaded /\ pressed THEN "native" ELSE "idle"
    /\ text' = <<>>
    /\ UNCHANGED << startupVars, display, nativePages, nativeRaised, ocrInvoked,
                    ocrPages, ocrRaised, returned, retval, analyzeVars, sec, fault >>

\* ----------------------------------------------------------- extract_text
\* lines 50-53: one page of the text layer
NativePage ==
    /\ pc = "native"
    /\ Len(nativePages) < MaxPages
    /\ \E extracted \in PageTexts :
          /\ nativePages' = Append(nativePages, extracted)
          /\ text' = AppendPage(text, extracted)
    /\ UNCHANGED << pc, startupVars, display, nativeRaised, ocrInvoked, ocrPages,
                    ocrRaised, returned, retval, analyzeVars, sec, fault >>

\* lines 54-55: pdfplumber.open or a page raises; except: pass
NativeRaise ==
    /\ pc = "native"
    /\ nativeRaised' = TRUE
    /\ pc' = "ocr_check"
    /\ UNCHANGED << startupVars, display, nativePages, text, ocrInvoked, ocrPages,
                    ocrRaised, returned, retval, analyzeVars, sec, fault >>

\* line 50: no page is left
NativeDone ==
    /\ pc = "native"
    /\ pc' = "ocr_check"
    /\ UNCHANGED << startupVars, display, extractVars, analyzeVars, sec, fault >>

\* lines 58-59, and line 68 when the fallback is not taken
OcrCheck ==
    /\ pc = "ocr_check"
    /\ IF NeedsOcr(text)
       THEN /\ Show(Entry("info", MsgOcrInfo, NoVal))
            /\ ocrInvoked' = TRUE
            /\ pc' = "ocr"
            /\ UNCHANGED << returned, retval >>
       ELSE /\ display' = display
            /\ ocrInvoked' = ocrInvoked
            /\ returned' = TRUE
            /\ retval' = Some(text)
            /\ pc' = "check_text"
    /\ UNCHANGED << startupVars, nativePages, nativeRaised, text, ocrPages,
                    ocrRaised, analyzeVars, sec, fault >>

\* lines 62-63: one image recognized
OcrPage ==
    /\ pc = "ocr"
    /\ Len(ocrPages) < MaxPages
    /\ \E recognized \in PageTexts :
          /\ ocrPages' = Append(ocrPages, recognized)
          /\ text' = AppendOcr(text, recognized)
    /\ UNCHANGED << pc, startupVars, display, nativePages, nativeRaised, ocrInvoked,
                    ocrRaised, returned, retval, analyzeVars, sec, fault >>

\* lines 64-66: convert_from_bytes or image_to_string raises
OcrRaise ==
    /\ pc = "ocr"
    /\ ocrRaised' = TRUE
    /\ Show(Entry("error", MsgOcrFailed, NoVal))
    /\ returned' = TRUE
    /\ retval' = OcrFailureResult(text)
    /\ pc' = "check_text"
    /\ UNCHANGED << startupVars, nativePages, nativeRaised, text, ocrInvoked,
                    ocrPages, analyzeVars, sec, fault >>

\* line 68 after the loop: return text
OcrDone ==
    /\ pc = "ocr"
    /\ returned' = TRUE
    /\ retval' = Some(text)
    /\ pc' = "check_text"
    /\ UNCHANGED << startupVars, display, nativePages, nativeRaised, text,
                    ocrInvoked, ocrPages, ocrRaised, analyzeVars, sec, fault >>

\* lines 152-154: if not text: st.error(...); st.stop()
CheckText ==
    /\ pc = "check_text"
    /\ IF Falsy(retval)
       THEN /\ Show(Entry("error", MsgNoText, NoVal))
            /\ pc' = "stopped"
       ELSE /\ display' = display
            /\ pc' = "call_remote"
    /\ UNCHANGED << startupVars, extractVars, analyzeVars, sec, fault >>

\* ----------------------------------------------------- analyze_transcript
\* lines 98-102: the call raises (network, authentication, rate limit);
\* nothing catches it
RemoteRaises ==
    /\ pc = "call_remote"
    /\ remoteCalled' = TRUE
    /\ prompt' = Truncate(retval[1])
    /\ pc' = "crashed"
    /\ fault' = Fault("remote", "APIError")
    /\ UNCHANGED << startupVars, display, extractVars, rawOutput, outcome, result, sec >>

\* lines 98-104: the call returns; message.content is a str or None
RemoteReplies ==
    /\ pc = "call_remote"
    /\ remoteCalled' = TRUE
    /\ prompt' = Truncate(retval[1])
    /\ \E content \in {None} \cup {Some(r) : r \in ModelReplies} :
          rawOutput' = content
    /\ pc' = "parse"
    /\ UNCHANGED << startupVars, display, extractVars, outcome, result, sec, fault >>

\* lines 107-115: re.search raises TypeError on None; otherwise one of the
\* three returns
Parse ==
    /\ pc = "parse"
    /\ IF IsNone(rawOutput)
       THEN /\ pc' = "crashed"
            /\ fault' = Fault("parse", "TypeError")
            /\ UNCHANGED << outcome, result >>
       ELSE /\ outcome' = ParseOutcome(rawOutput[1])
            /\ result' = ParseReply(rawOutput[1])
            /\ pc' = "render"
            /\ fault' = fault
    /\ UNCHANGED << startupVars, display, extractVars, remoteCalled, prompt,
                    rawOutput, sec >>

\* ---------------------------------------------------------------- renderer
\* lines 159-164: the error branch, or the heading of the report
RenderStart ==
    /\ pc = "render"
    /\ IF "error" \in DOMAIN result
       THEN /\ Show(Entry("error", "", result["error"]))
            /\ pc' = "done"
       ELSE /\ display' = display \o << Entry("success", MsgComplete, NoVal),
                                        Entry("markdown", "<div>", NoVal) >>
            /\ pc' = "sections"
    /\ UNCHANGED << startupVars, extractVars, analyzeVars, sec, fault >>

\* lines 166-186: one section; a missing field or a value that cannot be
\* iterated ends the run with an exception nothing catches
RenderSection ==
    /\ pc = "sections"
    /\ sec <= Len(Sections)
    /\ LET s == Sections[sec]
           f == SectionFault(s, result)
       IN  IF f # ""
           THEN /\ display' = display \o SectionPartial(s)
                /\ pc' = "crashed"
                /\ fault' = Fault("render", f)
                /\ sec' = sec
           ELSE /\ display' = display \o SectionEntries(s, result[s.field])
                /\ pc' = pc
                /\ fault' = fault
                /\ sec' = sec + 1
    /\ UNCHANGED << startupVars, extractVars, analyzeVars >>

\* line 188: the closing markup
RenderClose ==
    /\ pc = "sections"
    /\ sec > Len(Sections)
    /\ Show(Entry("markdown", "</div>", NoVal))
    /\ pc' = "done"
    /\ UNCHANGED << startupVars, extractVars, analyzeVars, sec, fault >>

Next ==
    \/ ReadSecret
    \/ CheckKey
    \/ MakeClient
    \/ Form
    \/ NativePage
    \/ NativeDone
    \/ NativeRaise
    \/ OcrCheck
    \/ OcrPage
    \/ OcrRaise
    \/ OcrDone
    \/ CheckText
    \/ RemoteReplies
    \/ RemoteRaises
    \/ Parse
    \/ RenderStart
    \/ RenderSection
    \/ RenderClose

Spec == Init /\ [][Next]_vars

\* ------------------------------------------- analyze_transcript on its own
\* The parsing part of analyze_transcript applied to every reply of at most
\* MaxReplyLen tokens, from the state the script is in when the call returns.
ParseAlphabet ==
    { LB, RB, CM, NL, TX,
      Mem("management_tone", Str(<<"u", "p">>)),
      Mem("confidence_level", Str(<<"h", "i">>)) }

BoundedReplies == UNION { [1..n -> ParseAlphabet] : n \in 0..MaxReplyLen }

InitParse ==
    /\ pc = "parse"
    /\ secrets = [k \in {KeyName} |-> "sk"]
    /\ apiKey = "sk"
    /\ client = TRUE
    /\ display = <<>>
    /\ nativePages = << <<"a">> >>
    /\ nativeRaised = FALSE
    /\ text = <<"a", "\n">>
    /\ ocrInvoked = FALSE
    /\ ocrPages = <<>>
    /\ ocrRaised = FALSE
    /\ returned = TRUE
    /\ retval = Some(<<"a", "\n">>)
    /\ remoteCalled = TRUE
    /\ prompt = <<"a", "\n">>
    /\ rawOutput \in {Some(r) : r \in BoundedReplies}
    /\ outcome = ""
    /\ result = <<>>
    /\ sec = 1
    /\ fault = NoFault

NextParse == Parse

SpecParse == InitParse /\ [][NextParse]_vars

\* ================================================================ claims
HasNonWs(s) == \E i \in 1..Len(s) : s[i] \notin Whitespace

RECURSIVE ConcatAll(_)
ConcatAll(ss) == IF ss = <<>> THEN <<>> ELSE Head(ss) \o ConcatAll(Tail(ss))

RECURSIVE JoinWithNewlines(_)
JoinWithNewlines(ss) ==
    IF ss = <<>> THEN <<>>
    ELSE IF Len(ss) = 1 THEN Head(ss)
    ELSE Head(ss) \o <<"\n">> \o JoinWithNewlines(Tail(ss))

RECURSIVE EachThenNewline(_)
EachThenNewline(ss) ==
    IF ss = <<>> THEN <<>> ELSE Head(ss) \o <<"\n">> \o EachThenNewline(Tail(ss))

NonEmptyPages == SelectSeq(nativePages, LAMBDA t : t # <<>>)
NativeHasText == \E i \in 1..Len(nativePages) : HasNonWs(nativePages[i])
LastShown == display[Len(display)]

\* C1 as stated, in the runs where the native stage raises nothing: when
\* the text layer yields text with a non-whitespace character, OCR is not
\* invoked and the value returned is the non-empty page texts joined with
\* newlines (a separator between pages).
C1_JoinedWithNewlines ==
    (returned /\ NativeHasText /\ ~nativeRaised) =>
        /\ ~ocrInvoked
        /\ retval = Some(JoinWithNewlines(NonEmptyPages))

\* C1 amended: when the text layer yields text with a non-whitespace
\* character, OCR is not invoked, no image is recognized, and the value
\* returned is the non-empty texts of the pages extracted, in page order,
\* each followed by a newline.
C1_NativeTextNoOcr ==
    (returned /\ NativeHasText) =>
        /\ ~ocrInvoked
        /\ ocrPages = <<>>
        /\ ~ocrRaised
        /\ retval = Some(EachThenNewline(NonEmptyPages))

C1_Witness ==
    /\ returned
    /\ NativeHasText
    /\ Len(nativePages) = 2
    /\ Len(NonEmptyPages) = 2
    /\ ~ocrInvoked

\* C2: when the text layer yields an empty or whitespace-only result, OCR
\* is invoked and, unless OCR raises, the value returned is exactly the
\* concatenation of the recognized page texts, with nothing of the native
\* stage in it.  Stated for the runs where the native stage raises nothing.
C2_OcrOutputOnly ==
    (returned /\ ~NativeHasText /\ ~nativeRaised) =>
        /\ ocrInvoked
        /\ ~ocrRaised => retval = Some(ConcatAll(ocrPages))

\* C3: in a run where the text layer and OCR both yield the empty string,
\* the extraction failure message is shown, the run halts, and the remote
\* completion service is not called.
BothEmpty ==
    /\ returned
    /\ ocrInvoked
    /\ ~ocrRaised
    /\ \A i \in 1..Len(nativePages) : nativePages[i] = <<>>
    /\ \A i \in 1..Len(ocrPages) : ocrPages[i] = <<>>

C3_EmptyTextStops ==
    BothEmpty =>
        /\ ~remoteCalled
        /\ pc \in {"check_text", "stopped"}
        /\ pc = "stopped" => LastShown = Entry("error", MsgNoText, NoVal)

C3_Witness ==
    /\ BothEmpty
    /\ pc = "stopped"
    /\ Len(nativePages) >= 1
    /\ Len(ocrPages) >= 1

\* C4: extract_text ends in usable text (at least one non-whitespace
\* character) or in the caller stopping: the remote completion service is
\* never called in a run whose extracted text is None, empty or whitespace
\* only.  Stated for the runs where the native stage raises nothing.
C4_UsableTextOrStop ==
    (returned /\ ~nativeRaised /\ remoteCalled) =>
        /\ ~IsNone(retval)
        /\ HasNonWs(retval[1])

\* C5: when the OCR stage raises, extract_text returns no text (what the
\* earlier pages gave is dropped), the OCR failure and the extraction
\* failure messages are shown, the run stops, and the remote service is not
\* called.
C5_OcrErrorStops ==
    ocrRaised =>
        /\ returned
        /\ IsNone(retval)
        /\ ~remoteCalled
        /\ \E i \in 1..Len(display) : display[i] = Entry("error", MsgOcrFailed, NoVal)
        /\ pc \in {"check_text", "stopped"}
        /\ pc = "stopped" => LastShown = Entry("error", MsgNoText, NoVal)

C5_Witness ==
    /\ ocrRaised
    /\ pc = "stopped"
    /\ Len(ocrPages) >= 1
    /\ HasNonWs(text)

\* C6: analyze_transcript returns NoJsonFound exactly when the reply has no
\* "{" with a "}" somewhere after it; otherwise it takes the reply from its
\* first "{" to its last "}" (newlines included), returns MalformedJson
\* exactly when that part is not JSON, and otherwise returns the object
\* parsed from it; what precedes the first "{" and follows the last "}"
\* does not change the result.
HasBracePair(r) ==
    \E i \in 1..Len(r) : \E j \in 1..Len(r) : i < j /\ r[i] = LB /\ r[j] = RB
FirstBrace(r) == SetMin({i \in 1..Len(r) : r[i] = LB})
LastBrace(r) == SetMax({j \in 1..Len(r) : r[j] = RB})
Braced(r) == SubSeq(r, FirstBrace(r), LastBrace(r))

C6_ThreeOutcomes ==
    (pc = "render") =>
        LET r == rawOutput[1]
        IN  /\ outcome \in {"NoJsonFound", "MalformedJson", "Parsed"}
            /\ (outcome = "NoJsonFound") <=> ~HasBracePair(r)
            /\ (outcome = "NoJsonFound") => result = ErrNoJson
            /\ HasBracePair(r) =>
                  /\ (outcome = "MalformedJson") <=> ~IsJsonObject(Braced(r))
                  /\ (outcome = "MalformedJson") => result = ErrMalformed
                  /\ (outcome = "Parsed") => result = ObjectOf(Braced(r))
                  /\ result = ParseReply(Braced(r))

C6_Witness ==
    /\ pc = "render"
    /\ outcome = "Parsed"
    /\ Len(rawOutput[1]) = 5
    /\ rawOutput[1][1] = TX
    /\ rawOutput[1][3] = NL
    /\ rawOutput[1][5] = TX
    /\ result = <<>>

\* C7: an error raised by a pipeline stage never ends the run in an
\* unhandled fault, except the renderer reading a field the parsed object
\* lacks.
C7_OnlyMissingFieldPropagates ==
    (pc = "crashed" /\ fault.stage # "startup") =>
        /\ fault.stage = "render"
        /\ fault.kind = "KeyError"

\* C8: when the API key is not defined or is defined empty, the script
\* shows the configuration error and halts before the client is
\* constructed and before the form; it never ends in an unhandled fault.
C8_MissingKeyHalts ==
    (KeyName \notin DOMAIN secrets \/ secrets[KeyName] = "") =>
        /\ pc \in {"start", "check_key", "stopped"}
        /\ ~client
        /\ pc = "stopped" => display = <<Entry("error", MsgConfig, NoVal)>>

\* C9: for every value analyze_transcript returns, the renderer shows
\* either the error message alone or the whole report in the fixed order;
\* a parsed object that has all seven fields is shown as a report.
SectionFields == {Sections[i].field : i \in 1..Len(Sections)}

RECURSIVE ReportBody(_, _)
ReportBody(res, i) ==
    IF i > Len(Sections) THEN <<>>
    ELSE SectionEntries(Sections[i], res[Sections[i].field]) \o ReportBody(res, i + 1)

FullReport(res) ==
    << Entry("success", MsgComplete, NoVal), Entry("markdown", "<div>", NoVal) >>
        \o ReportBody(res, 1)
        \o << Entry("markdown", "</div>", NoVal) >>

Rendered == SelectSeq(display, LAMBDA e : e.kind # "info")

RenderEnded == pc = "done" \/ (pc = "crashed" /\ fault.stage = "render")

C9_ErrorOrFullReport ==
    RenderEnded =>
        /\ \/ /\ "error" \in DOMAIN result
              /\ Rendered = <<Entry("error", "", result["error"])>>
           \/ /\ "error" \notin DOMAIN result
              /\ SectionFields \subseteq DOMAIN result
              /\ Rendered = FullReport(result)
        /\ (outcome = "Parsed" /\ SectionFields \subseteq DOMAIN result)
              => Rendered = FullReport(result)

\* C10: an exception in the native stage counts as "no text produced": the
\* OCR fallback runs and nothing of the failed native attempt is returned.
C10_NativeErrorMeansOcr ==
    (nativeRaised /\ returned) =>
        /\ ocrInvoked
        /\ ~IsNone(retval) => retval = Some(ConcatAll(ocrPages))

====
